---- MODULE Spec2Model ----
(***************************************************************************)
(* The parser combinators of src/core/src/common/combinator.rs (trait      *)
(* Parser) running on the token stream TP of the same file's test module.  *)
(*                                                                         *)
(* A parser value is the record [input, cursor, saved_cursor, calls]: the  *)
(* three fields of struct TP and, as a history field, the save/load calls  *)
(* issued on the stream so far.  A closure handed to a combinator is data  *)
(* (the records built by OpNext .. OpBlock below) and Call runs it.  Every *)
(* method returns an outcome [p, st, val, err]: the parser after the call, *)
(* st = "ok" with the value, st = "err" with the error, or st = "hang"     *)
(* when the call never returns.                                            *)
(*                                                                         *)
(* stream names the implementation of save and load behind the trait:     *)
(* "TP", the single saved_cursor of the test module, or "Stack", a stack   *)
(* of cursor positions (save pushes, load pops); stack is that stack.      *)
(***************************************************************************)
EXTENDS Integers, Sequences, FiniteSets, TLC

VARIABLES input, cursor, saved_cursor, pc, last, stream, stack

vars == <<input, cursor, saved_cursor, pc, last, stream, stack>>

(***************************************************************************)
(* Bounds of the model.                                                    *)
(***************************************************************************)
MaxLen == 3
MaxStr == 2
MaxStack == 2

Tokens == {4, 5}

RECURSIVE SeqsUpTo(_, _)
SeqsUpTo(S, n) ==
    IF n = 0 THEN {<<>>}
    ELSE LET shorter == SeqsUpTo(S, n - 1)
         IN  shorter \cup {Append(s, x) : s \in shorter, x \in S}

(***************************************************************************)
(* Results.  NoCall is the value of last while no call has returned: a     *)
(* call is recorded as the method f, its argument arg, the cursor c0 and   *)
(* saved_cursor s0 it started from, and its outcome.                       *)
(***************************************************************************)
Unit == <<>>
None == <<>>
Some(x) == <<x>>

NoCall ==
    [f |-> "none", arg |-> Unit, c0 |-> 0, s0 |-> 0,
     st |-> "none", val |-> Unit, err |-> "", calls |-> <<>>]

Ok(p, v) == [p |-> p, st |-> "ok", val |-> v, err |-> ""]
Err(p, e) == [p |-> p, st |-> "err", val |-> Unit, err |-> e]
Hang(p) == [p |-> p, st |-> "hang", val |-> Unit, err |-> ""]

(***************************************************************************)
(* struct TP and impl Parser<i32, String> for TP.                          *)
(***************************************************************************)
TP(in, c, s) ==
    [input |-> in, cursor |-> c, saved_cursor |-> s, calls |-> <<>>,
     stream |-> "TP", stack |-> <<>>]

get(in, i) == IF i < Len(in) THEN Some(in[i + 1]) ELSE None

\* consume as it would be if it advanced the cursor at the end of the input too.
consume_past_end(p) ==
    [p |-> [p EXCEPT !.cursor = @ + 1], x |-> get(p.input, p.cursor)]

consume(p) ==
    LET x == get(p.input, p.cursor)
    IN  IF x # None
        THEN [p |-> [p EXCEPT !.cursor = @ + 1], x |-> x]
        ELSE [p |-> p, x |-> None]

preview(p) == get(p.input, p.cursor)

current_pos(p) == <<0, 0>>

error(p, message) == message

(***************************************************************************)
(* The stream that keeps its checkpoints on a stack: save pushes the       *)
(* cursor, load pops the top entry and moves the cursor to it (and leaves  *)
(* the cursor when there is no entry).                                     *)
(***************************************************************************)
StackStream(in, c, st) ==
    [input |-> in, cursor |-> c, saved_cursor |-> 0, calls |-> <<>>,
     stream |-> "Stack", stack |-> st]

stack_save(p) ==
    [p EXCEPT !.stack = Append(@, p.cursor), !.calls = Append(@, "save")]

stack_load(p) ==
    IF p.stack = <<>> THEN [p EXCEPT !.calls = Append(@, "load")]
    ELSE [p EXCEPT !.cursor = p.stack[Len(p.stack)],
                   !.stack = SubSeq(@, 1, Len(@) - 1),
                   !.calls = Append(@, "load")]

\* save as it would be if it recorded the position after the next token.
save_ahead(p) ==
    [p EXCEPT !.saved_cursor = p.cursor + 1, !.calls = Append(@, "save")]

\* load as it would be if it rewound the stream to its start.
load_rewind(p) == [p EXCEPT !.cursor = 0, !.calls = Append(@, "load")]

\* self.save() and self.load() on the stream behind self
save(p) ==
    IF p.stream = "Stack" THEN stack_save(p)
    ELSE [p EXCEPT !.saved_cursor = p.cursor, !.calls = Append(@, "save")]

load(p) ==
    IF p.stream = "Stack" THEN stack_load(p)
    ELSE [p EXCEPT !.cursor = p.saved_cursor, !.calls = Append(@, "load")]

(***************************************************************************)
(* Display of a token (format!("{}", x)) and the predicates of the tests.  *)
(***************************************************************************)
fmt(x) == ToString(x)

pred(f, x) ==
    CASE f = "lt5"  -> x < 5
      [] f = "even" -> x % 2 = 0

(***************************************************************************)
(* trait Parser: the provided methods.                                     *)
(***************************************************************************)
next(p) ==
    LET c == consume(p)
        e == error(c.p, "unexpected eof")
    IN  IF c.x # None THEN Ok(c.p, c.x[1]) ELSE Err(c.p, e)

\* predicate as it would be if it only looked at a token it then rejects.
predicate_unconsumed(p, f) ==
    LET r == next(p)
    IN  IF r.st # "ok" THEN r
        ELSE IF pred(f, r.val) THEN Ok(r.p, r.val)
        ELSE Err(p, error(p, "unexpected token " \o fmt(r.val)))

predicate(p, f) ==
    LET r == next(p)
    IN  IF r.st # "ok" THEN r
        ELSE IF pred(f, r.val) THEN Ok(r.p, r.val)
        ELSE Err(r.p, error(r.p, "unexpected token " \o fmt(r.val)))

\* atom as it would be if it only looked at a token it then rejects.
atom_unconsumed(p, expected) ==
    LET r == next(p)
    IN  IF r.st # "ok" THEN r
        ELSE IF r.val = expected THEN Ok(r.p, r.val)
        ELSE Err(p, error(p, "unexpected token " \o fmt(r.val)
                                \o ", expected " \o fmt(expected)))

atom(p, expected) ==
    LET r == next(p)
    IN  IF r.st # "ok" THEN r
        ELSE IF r.val = expected THEN Ok(r.p, r.val)
        ELSE Err(r.p, error(r.p, "unexpected token " \o fmt(r.val)
                                  \o ", expected " \o fmt(expected)))

RECURSIVE string_loop(_, _, _, _)
string_loop(p, s, i, res) ==
    IF i > Len(s) THEN Ok(p, res)
    ELSE LET r == atom(p, s[i])
         IN  IF r.st = "ok" THEN string_loop(r.p, s, i + 1, Append(res, r.val))
             ELSE r

\* string as it would be if the loop started at the second token.
string_skip_first(p, s) == string_loop(p, s, 2, <<>>)

string(p, s) == string_loop(p, s, 1, <<>>)

RECURSIVE Call(_, _)

\* .map_err(|x| { self.load(); x }) on the closure's outcome r
map_err_load(r) == IF r.st = "err" THEN Err(load(r.p), r.err) ELSE r

\* try as it would be if it restored the checkpoint on success too.
load_always(r) == IF r.st = "hang" THEN r ELSE [r EXCEPT !.p = load(r.p)]

try_restoring(p, parser) == load_always(Call(parser, save(p)))

\* try as it would be if it recorded no checkpoint.
try_unsaved(p, parser) == map_err_load(Call(parser, p))

try(p, parser) == map_err_load(Call(parser, save(p)))

RECURSIVE choose_loop(_, _, _)

\* match self.try(parser) { Ok(x) => return Ok(x), Err(_) => continue }
choose_match(r, parsers, i) ==
    IF r.st = "err" THEN choose_loop(r.p, parsers, i + 1) ELSE r

choose_loop(p, parsers, i) ==
    IF i > Len(parsers)
    THEN LET x == preview(p)
         IN  Err(p, error(p, IF x # None THEN "unexpected token " \o fmt(x[1])
                                         ELSE "unexpected eof"))
    ELSE choose_match(try(p, parsers[i]), parsers, i)

choose(p, parsers) == choose_loop(p, parsers, 1)

(***************************************************************************)
(* The loops of many and many1 leave only through a failed attempt.  The   *)
(* attempt starts right after try's save, so the cursor at the head of an  *)
(* iteration fixes the whole iteration: once a cursor in heads comes back  *)
(* the loop repeats for ever and the call hangs.                           *)
(***************************************************************************)
RECURSIVE many_loop(_, _, _, _)

\* the match as it would be if a failed attempt did not leave the loop.
many_match_retry(r, p, parser, res, heads) ==
    CASE r.st = "hang" -> r
      [] r.st \in {"ok", "err"} ->
            IF r.p.cursor \in heads \cup {p.cursor} THEN Hang(r.p)
            ELSE many_loop(r.p, parser,
                       IF r.st = "ok" THEN Append(res, r.val) ELSE res,
                       heads \cup {p.cursor})

\* match self.try(&parser) { Ok(x) => res.push(x), Err(_) => break }
many_match(r, p, parser, res, heads) ==
    CASE r.st = "err"  -> Ok(r.p, res)
      [] r.st = "hang" -> r
      [] r.st = "ok"   ->
            IF r.p.cursor \in heads \cup {p.cursor} THEN Hang(r.p)
            ELSE many_loop(r.p, parser, Append(res, r.val),
                       heads \cup {p.cursor})

many_loop(p, parser, res, heads) ==
    many_match(try(p, parser), p, parser, res, heads)

many(p, parser) == many_loop(p, parser, <<>>, {})

RECURSIVE many1_loop(_, _, _, _)

\* match self.try(&parser) { Ok(x) => res.push(x), Err(_) => break }
many1_match(r, p, parser, res, heads) ==
    CASE r.st = "err"  -> Ok(r.p, res)
      [] r.st = "hang" -> r
      [] r.st = "ok"   ->
            IF r.p.cursor \in heads \cup {p.cursor} THEN Hang(r.p)
            ELSE many1_loop(r.p, parser, Append(res, r.val),
                        heads \cup {p.cursor})

many1_loop(p, parser, res, heads) ==
    many1_match(try(p, parser), p, parser, res, heads)

\* res.push(try!(..)) on the outcome r of the first application, then the loop
many1_first(r, parser) ==
    IF r.st # "ok" THEN r ELSE many1_loop(r.p, parser, <<r.val>>, {})

\* the same with the first result not pushed
many1_first_unpushed(r, parser) ==
    IF r.st # "ok" THEN r ELSE many1_loop(r.p, parser, <<>>, {})

\* many1 as it would be if the first application were wrapped in try too.
many1_first_tried(p, parser) == many1_first(try(p, parser), parser)

\* many1 as it would be if the first result were not pushed.
many1_first_dropped(p, parser) == many1_first_unpushed(Call(parser, p), parser)

many1(p, parser) == many1_first(Call(parser, p), parser)

\* the same as it would be if a failure of the try were handed on.
discard_ok_only(r) == IF r.st = "ok" THEN Ok(r.p, Unit) ELSE r

\* let _ = ..: the outcome r of the try is dropped
discard(r) == IF r.st = "hang" THEN r ELSE Ok(r.p, Unit)

optional(p, parser) == discard(try(p, parser))

(***************************************************************************)
(* Closures.  A closure |p| p.m(..) is the record of the method it calls;  *)
(* OpBlock(<<a, b, c>>) is the closure |p| { a?; b?; c } that makes its    *)
(* calls in order, returns the first error and else the last value.        *)
(***************************************************************************)
OpNext == [k |-> "next"]
OpPredicate(f) == [k |-> "predicate", f |-> f]
OpAtom(t) == [k |-> "atom", expected |-> t]
OpString(s) == [k |-> "string", s |-> s]
OpTry(o) == [k |-> "try", parser |-> o]
OpChoose(os) == [k |-> "choose", parsers |-> os]
OpMany(o) == [k |-> "many", parser |-> o]
OpMany1(o) == [k |-> "many1", parser |-> o]
OpOptional(o) == [k |-> "optional", parser |-> o]
OpBlock(os) == [k |-> "block", body |-> os]

RECURSIVE block_loop(_, _, _)

\* the outcome r of the i-th call: go on after an Ok, return it otherwise
block_match(r, body, i) ==
    IF r.st = "ok" /\ i < Len(body) THEN block_loop(r.p, body, i + 1) ELSE r

block_loop(p, body, i) == block_match(Call(body[i], p), body, i)

Call(op, p) ==
    CASE op.k = "next"      -> next(p)
      [] op.k = "predicate" -> predicate(p, op.f)
      [] op.k = "atom"      -> atom(p, op.expected)
      [] op.k = "string"    -> string(p, op.s)
      [] op.k = "try"       -> try(p, op.parser)
      [] op.k = "choose"    -> choose(p, op.parsers)
      [] op.k = "many"      -> many(p, op.parser)
      [] op.k = "many1"     -> many1(p, op.parser)
      [] op.k = "optional"  -> optional(p, op.parser)
      [] op.k = "block"     -> block_loop(p, op.body, 1)

(***************************************************************************)
(* The reference stream: a checkpoint is pushed on entry to each try and   *)
(* popped on exit from that try, on success and on failure, and a failing  *)
(* try restores its own entry.  RefCall runs a closure on it; the methods  *)
(* other than try are the trait's, with try replaced by ref_try.           *)
(***************************************************************************)
RECURSIVE RefCall(_, _)

pop(p) == [p EXCEPT !.stack = SubSeq(@, 1, Len(@) - 1)]

ref_exit(r) ==
    CASE r.st = "err"  -> Err(stack_load(r.p), r.err)
      [] r.st = "ok"   -> Ok(pop(r.p), r.val)
      [] r.st = "hang" -> r

ref_try(p, parser) == ref_exit(RefCall(parser, stack_save(p)))

RECURSIVE ref_choose_loop(_, _, _)

ref_choose_match(r, parsers, i) ==
    IF r.st = "err" THEN ref_choose_loop(r.p, parsers, i + 1) ELSE r

ref_choose_loop(p, parsers, i) ==
    IF i > Len(parsers)
    THEN LET x == preview(p)
         IN  Err(p, error(p, IF x # None THEN "unexpected token " \o fmt(x[1])
                                         ELSE "unexpected eof"))
    ELSE ref_choose_match(ref_try(p, parsers[i]), parsers, i)

RECURSIVE ref_many_loop(_, _, _, _)

ref_many_match(r, p, parser, res, heads) ==
    CASE r.st = "err"  -> Ok(r.p, res)
      [] r.st = "hang" -> r
      [] r.st = "ok"   ->
            IF r.p.cursor \in heads \cup {p.cursor} THEN Hang(r.p)
            ELSE ref_many_loop(r.p, parser, Append(res, r.val),
                           heads \cup {p.cursor})

ref_many_loop(p, parser, res, heads) ==
    ref_many_match(ref_try(p, parser), p, parser, res, heads)

ref_many1_first(r, parser) ==
    IF r.st # "ok" THEN r ELSE ref_many_loop(r.p, parser, <<r.val>>, {})

RECURSIVE ref_block_loop(_, _, _)

ref_block_match(r, body, i) ==
    IF r.st = "ok" /\ i < Len(body) THEN ref_block_loop(r.p, body, i + 1) ELSE r

ref_block_loop(p, body, i) == ref_block_match(RefCall(body[i], p), body, i)

RefCall(op, p) ==
    CASE op.k = "next"      -> next(p)
      [] op.k = "predicate" -> predicate(p, op.f)
      [] op.k = "atom"      -> atom(p, op.expected)
      [] op.k = "string"    -> string(p, op.s)
      [] op.k = "try"       -> ref_try(p, op.parser)
      [] op.k = "choose"    -> ref_choose_loop(p, op.parsers, 1)
      [] op.k = "many"      -> ref_many_loop(p, op.parser, <<>>, {})
      [] op.k = "many1"     -> ref_many1_first(RefCall(op.parser, p), op.parser)
      [] op.k = "optional"  -> discard(ref_try(p, op.parser))
      [] op.k = "block"     -> ref_block_loop(p, op.body, 1)

(***************************************************************************)
(* The inputs and the closures the caller draws from.  ExampleInputs and   *)
(* ExampleStrings are the literals of the test module.                     *)
(***************************************************************************)
ExampleInputs == {<<4, 5, 6, 7, 8, 9, 10>>, <<1, 2, 3, 4>>}
ExampleStrings == {<<1, 2, 3>>, <<4, 5, 6, 8>>, <<4, 5, 6>>}

Inputs == SeqsUpTo(Tokens, MaxLen) \cup ExampleInputs
Strs == SeqsUpTo(Tokens, MaxStr) \cup ExampleStrings
ClosureStrs == {<<>>, <<4, 4>>, <<4, 5>>} \cup ExampleStrings
Preds == {"lt5"}

Prims ==
    {OpNext} \cup {OpPredicate(f) : f \in Preds}
             \cup {OpAtom(t) : t \in Tokens}
             \cup {OpString(s) : s \in ClosureStrs}

Steps == {OpNext} \cup {OpAtom(t) : t \in Tokens}

Wrap(S) ==
    {OpTry(a) : a \in S} \cup {OpMany(a) : a \in S}
        \cup {OpMany1(a) : a \in S} \cup {OpOptional(a) : a \in S}

Inner == Wrap(Steps) \cup {OpChoose(<<>>)}
                     \cup {OpChoose(<<a, b>>) : a, b \in Steps}

Blocks ==
    {OpBlock(<<a, b, c>>) : a \in Steps, b \in Inner, c \in Steps}
        \cup {OpBlock(<<a, b>>) : a \in Steps, b \in Inner}
        \cup {OpBlock(<<b, c>>) : b \in Inner, c \in Steps}

Closures == Prims \cup Wrap(Prims) \cup Inner \cup Blocks

(***************************************************************************)
(* The candidates of one choose call have one result type O: tokens or     *)
(* token vectors.                                                          *)
(***************************************************************************)
TokenCandidates ==
    {OpNext} \cup {OpPredicate(f) : f \in Preds}
             \cup {OpAtom(t) : t \in Tokens}
             \cup {OpBlock(<<a, OpOptional(OpNext), c>>) : a, c \in Steps}

StringCandidates == {OpString(s) : s \in Strs}

ListsUpTo2(S) ==
    {<<>>} \cup {<<a>> : a \in S} \cup {<<a, b>> : a, b \in S}

CandidateLists ==
    ListsUpTo2(TokenCandidates) \cup ListsUpTo2(StringCandidates)
        \cup {<<OpString(a), OpString(b), OpString(c)>> :
                  a, b, c \in ExampleStrings}

(***************************************************************************)
(* The caller.  pc = "idle": the caller holds the parser and may call any  *)
(* method; the call runs to its end in one step and last records it (the   *)
(* method, its argument, the cursor and saved_cursor it started from, its  *)
(* result and the save/load calls it issued).  pc = "returned": the caller *)
(* holds the result.  pc = "hung": the call did not return.                *)
(***************************************************************************)
Self ==
    IF stream = "Stack" THEN StackStream(input, cursor, stack)
    ELSE TP(input, cursor, saved_cursor)

Return(f, arg, r) ==
    /\ Len(r.p.stack) <= MaxStack
    /\ stack' = r.p.stack
    /\ cursor' = r.p.cursor
    /\ saved_cursor' = r.p.saved_cursor
    /\ pc' = IF r.st = "hang" THEN "hung" ELSE "returned"
    /\ last' = [f |-> f, arg |-> arg, c0 |-> cursor, s0 |-> saved_cursor,
                st |-> r.st, val |-> r.val, err |-> r.err,
                calls |-> r.p.calls]
    /\ UNCHANGED <<input, stream>>

Init ==
    /\ input \in Inputs
    /\ cursor = 0
    /\ saved_cursor = 0
    /\ pc = "idle"
    /\ last = NoCall
    /\ stream = "TP"
    /\ stack = <<>>

\* the same caller with the stack of checkpoints behind the trait
InitStack ==
    /\ input \in Inputs
    /\ cursor = 0
    /\ saved_cursor = 0
    /\ pc = "idle"
    /\ last = NoCall
    /\ stream = "Stack"
    /\ stack = <<>>

CallNext == pc = "idle" /\ Return("next", Unit, next(Self))

CallPredicate ==
    /\ pc = "idle"
    /\ \E f \in Preds : Return("predicate", f, predicate(Self, f))

CallAtom ==
    /\ pc = "idle"
    /\ \E t \in Tokens : Return("atom", t, atom(Self, t))

CallString ==
    /\ pc = "idle"
    /\ \E s \in Strs : Return("string", s, string(Self, s))

CallTry ==
    /\ pc = "idle"
    /\ \E o \in Closures : Return("try", o, try(Self, o))

CallChoose ==
    /\ pc = "idle"
    /\ \E os \in CandidateLists : Return("choose", os, choose(Self, os))

CallMany ==
    /\ pc = "idle"
    /\ \E o \in Closures : Return("many", o, many(Self, o))

CallMany1 ==
    /\ pc = "idle"
    /\ \E o \in Closures : Return("many1", o, many1(Self, o))

CallOptional ==
    /\ pc = "idle"
    /\ \E o \in Closures : Return("optional", o, optional(Self, o))

Continue ==
    /\ pc = "returned"
    /\ pc' = "idle"
    /\ last' = NoCall
    /\ UNCHANGED <<input, cursor, saved_cursor, stream, stack>>

Next ==
    \/ CallNext
    \/ CallPredicate
    \/ CallAtom
    \/ CallString
    \/ CallTry
    \/ CallChoose
    \/ CallMany
    \/ CallMany1
    \/ CallOptional
    \/ Continue

Spec == Init /\ [][Next]_vars

SpecStack == InitStack /\ [][Next]_vars

(***************************************************************************)
(* The caller that also uses the methods of the stream itself: preview and *)
(* current_pos, which take &self, and save followed at once by load.       *)
(***************************************************************************)
CallPreview == pc = "idle" /\ Return("preview", Unit, Ok(Self, preview(Self)))

CallCurrentPos ==
    pc = "idle" /\ Return("current_pos", Unit, Ok(Self, current_pos(Self)))

CallSaveLoad ==
    pc = "idle" /\ Return("save_load", Unit, Ok(load(save(Self)), Unit))

NextStream ==
    \/ Next
    \/ CallPreview
    \/ CallCurrentPos
    \/ CallSaveLoad

SpecStream == Init /\ [][NextStream]_vars

(***************************************************************************)
(* The claims.  Before is the parser the last call started from.           *)
(***************************************************************************)
Before == TP(input, last.c0, last.s0)

\* the call last records, as the closure that makes it
LastOp ==
    CASE last.f = "next"      -> OpNext
      [] last.f = "predicate" -> OpPredicate(last.arg)
      [] last.f = "atom"      -> OpAtom(last.arg)
      [] last.f = "string"    -> OpString(last.arg)
      [] last.f = "try"       -> OpTry(last.arg)
      [] last.f = "choose"    -> OpChoose(last.arg)
      [] last.f = "many"      -> OpMany(last.arg)
      [] last.f = "many1"     -> OpMany1(last.arg)
      [] last.f = "optional"  -> OpOptional(last.arg)

Returned(f) == pc = "returned" /\ last.f = f

Ended(f) == pc \in {"returned", "hung"} /\ last.f = f

\* C1: whenever try(op) returns an error, the cursor is the one from before
\* the call and the error is the one op returned.
C1_TryFailureRestoresCursor ==
    (Returned("try") /\ last.st = "err") =>
        /\ cursor = last.c0
        /\ last.err = Call(last.arg, save(Before)).err

(***************************************************************************)
(* What a candidate or a repeated closure does when it is run by itself    *)
(* from the parser a call started from.                                    *)
(***************************************************************************)
Alone(o) == Call(o, Before)

FirstOk(os) ==
    {i \in 1..Len(os) :
        /\ Alone(os[i]).st = "ok"
        /\ \A j \in 1..(i - 1) : Alone(os[j]).st = "err"}

NoneOk(os) == \A i \in 1..Len(os) : Alone(os[i]).st = "err"

ExpectedHere(in, c) ==
    IF c < Len(in) THEN "unexpected token " \o ToString(in[c + 1])
    ELSE "unexpected eof"

\* The closure applied again and again, each time from where the previous
\* success left the parser: the results up to the first failure and the
\* parser before that failure ("never" when no application fails).
RECURSIVE Repeat(_, _, _, _)
Repeat(o, p, res, heads) ==
    LET r == Call(o, p)
    IN  CASE r.st = "err"  -> [st |-> "failed", res |-> res, p |-> p]
          [] r.st = "hang" -> [st |-> "never", res |-> res, p |-> p]
          [] r.st = "ok"   ->
                IF r.p.cursor \in heads \cup {p.cursor}
                THEN [st |-> "never", res |-> res, p |-> p]
                ELSE Repeat(o, r.p, Append(res, r.val), heads \cup {p.cursor})

\* C2: when some candidate succeeds from the starting cursor (the ones
\* before it failing), choose returns the result of the first such candidate
\* and leaves the cursor where that candidate leaves it from that cursor.
C2_ChooseFirstSuccess ==
    (Ended("choose") /\ FirstOk(last.arg) # {}) =>
        LET i == CHOOSE i \in FirstOk(last.arg) : TRUE
            r == Alone(last.arg[i])
        IN  /\ pc = "returned"
            /\ last.st = "ok"
            /\ last.val = r.val
            /\ cursor = r.p.cursor

\* C3: when no candidate succeeds from the starting cursor c, choose fails,
\* the cursor is c again and the error is the one synthesized for c.
C3_ChooseAllFail ==
    (Ended("choose") /\ NoneOk(last.arg)) =>
        /\ pc = "returned"
        /\ last.st = "err"
        /\ cursor = last.c0
        /\ last.err = ExpectedHere(input, last.c0)

\* C4: when the closure succeeds k times in a row and then fails, many
\* succeeds with those k results in order and the cursor is where the k-th
\* success left it.
C4_ManyCollectsRun ==
    (Ended("many") /\ Repeat(last.arg, Before, <<>>, {}).st = "failed") =>
        LET rep == Repeat(last.arg, Before, <<>>, {})
        IN  /\ pc = "returned"
            /\ last.st = "ok"
            /\ last.val = rep.res
            /\ cursor = rep.p.cursor

\* C6: optional never reports a failure; the cursor is where a successful
\* closure leaves it, and the starting cursor when the closure fails.
C6_OptionalCursor ==
    Returned("optional") =>
        LET r == Alone(last.arg)
        IN  /\ last.st = "ok"
            /\ r.st = "ok" => cursor = r.p.cursor
            /\ r.st = "err" => cursor = last.c0

\* C5: when the first application of the closure fails, many1 fails with
\* that error and leaves the parser as that application left it: the cursor
\* is not rolled back (one past a rejected token for predicate) and no save
\* or load is issued beyond the closure's own (none for a primitive).
C5_Many1FirstFailure ==
    (Ended("many1") /\ Alone(last.arg).st = "err") =>
        LET r == Alone(last.arg)
        IN  /\ pc = "returned"
            /\ last.st = "err"
            /\ last.err = r.err
            /\ cursor = r.p.cursor
            /\ saved_cursor = r.p.saved_cursor
            /\ last.calls = r.p.calls
            /\ last.arg \in Prims => last.calls = <<>>
            /\ (last.arg.k = "predicate" /\ last.c0 < Len(input)) =>
                    cursor = last.c0 + 1

C5_Witness ==
    /\ Returned("many1")
    /\ last.arg = OpPredicate("lt5")
    /\ last.st = "err"
    /\ last.err = "unexpected token 5"
    /\ cursor = last.c0 + 1
    /\ last.calls = <<>>

IsPrefix(s, in) ==
    /\ Len(s) <= Len(in)
    /\ \A i \in 1..Len(s) : s[i] = in[i]

\* C7: string(P) called at cursor 0 with a prefix P of the input succeeds
\* with the tokens of P in order and leaves the cursor at Len(P).
C7_StringPrefixSucceeds ==
    (Returned("string") /\ last.c0 = 0 /\ IsPrefix(last.arg, input)) =>
        /\ last.st = "ok"
        /\ last.val = last.arg
        /\ cursor = Len(last.arg)

C7_Witness ==
    /\ Returned("string")
    /\ last.c0 = 0
    /\ last.arg = <<4, 4>>
    /\ last.st = "ok"
    /\ last.val = <<4, 4>>
    /\ cursor = 2

\* The first position (counted from 1) where q and the input part ways.
FirstMismatch(q, in) ==
    CHOOSE i \in 1..Len(q) :
        /\ i > Len(in) \/ in[i] # q[i]
        /\ \A j \in 1..(i - 1) : j <= Len(in) /\ in[j] = q[j]

AtomError(in, i, e) ==
    IF i > Len(in) THEN "unexpected eof"
    ELSE "unexpected token " \o ToString(in[i]) \o ", expected " \o ToString(e)

StringFails ==
    Returned("string") /\ last.c0 = 0 /\ ~IsPrefix(last.arg, input)

\* C8 as stated: string(Q) called at cursor 0 with Q no prefix of the input
\* fails with the atom's error of the first mismatching index and leaves the
\* cursor at that index.
C8_StringStopsAtMismatch ==
    StringFails =>
        LET i == FirstMismatch(last.arg, input)
        IN  /\ last.st = "err"
            /\ last.err = AtomError(input, i, last.arg[i])
            /\ cursor = i - 1

\* C8 as amended: string(Q) called at cursor 0 with Q no prefix of the input
\* fails with the atom's error of the first mismatching index; the cursor is
\* one past that index when the input has a (different) token there, and at
\* that index when the input has ended there.
C8_StringStopsPastMismatch ==
    StringFails =>
        LET i == FirstMismatch(last.arg, input)
        IN  /\ last.st = "err"
            /\ last.err = AtomError(input, i, last.arg[i])
            /\ cursor = IF i <= Len(input) THEN i ELSE i - 1

C8_Witness ==
    /\ StringFails
    /\ last.arg = <<4, 4>>
    /\ last.err = "unexpected token 5, expected 4"
    /\ cursor = 2

NextAtEnd == Returned("next") /\ last.c0 >= Len(input)

NextConsumes ==
    (Returned("next") /\ last.c0 < Len(input)) =>
        /\ last.st = "ok"
        /\ last.val = input[last.c0 + 1]
        /\ cursor = last.c0 + 1

\* C9 as stated: at the end of the input next fails with the message
\* "unexpected end of input" and leaves the cursor; otherwise it succeeds
\* with the token at the cursor and advances the cursor by one.
C9_NextEndOfInputMessage ==
    /\ NextAtEnd =>
        /\ last.st = "err"
        /\ last.err = "unexpected end of input"
        /\ cursor = last.c0
    /\ NextConsumes

\* C9 as amended: at the end of the input next fails with the message
\* "unexpected eof" and leaves the cursor; otherwise it succeeds with the
\* token at the cursor and advances the cursor by one.
C9_NextEofMessage ==
    /\ NextAtEnd =>
        /\ last.st = "err"
        /\ last.err = "unexpected eof"
        /\ cursor = last.c0
    /\ NextConsumes

C9_Witness ==
    /\ NextAtEnd
    /\ Len(input) > 0
    /\ last.st = "err"
    /\ cursor = Len(input)

\* C10: when the first application of the closure succeeds, many1 and many
\* started from the same parser end the same way, with the same results and
\* the same cursor.
C10_Many1AgreesWithMany ==
    (Ended("many1") /\ Alone(last.arg).st = "ok") =>
        LET m == many(Before, last.arg)
        IN  /\ last.st = m.st
            /\ m.st = "ok" => (last.val = m.val /\ cursor = m.p.cursor)

C10_Witness ==
    /\ Returned("many1")
    /\ last.st = "ok"
    /\ Len(last.val) = 2
    /\ last.val = many(Before, last.arg).val
    /\ cursor = last.c0 + 2
    /\ cursor < Len(input)

\* C11: on the stream that keeps its checkpoints on a stack, whenever try(op)
\* returns an error the cursor is the one from before the call, whatever op
\* consumed and whatever inner try, choose, many or optional calls it made.
C11_StackTryRestoresCursor ==
    (stream = "Stack" /\ Returned("try") /\ last.st = "err") =>
        cursor = last.c0

\* What the last call does on the reference stream from the same cursor.
Reference == RefCall(LastOp, StackStream(input, last.c0, <<>>))

\* C12: every call on the single-slot stream ends as the same call does on
\* the reference stream from the same cursor: both return or neither does,
\* with the same result or error and the same cursor.
C12_SingleSlotActsAsReference ==
    (stream = "TP" /\ pc \in {"returned", "hung"}) =>
        /\ last.st = Reference.st
        /\ last.st = "ok" => last.val = Reference.val
        /\ last.st = "err" => last.err = Reference.err
        /\ last.st # "hang" => cursor = Reference.p.cursor

\* The last call was predicate or atom at a cursor where the input has a
\* token, and the token is one the call rejects.
Rejects ==
    /\ pc = "returned"
    /\ last.f \in {"predicate", "atom"}
    /\ last.c0 < Len(input)
    /\ \/ last.f = "predicate" /\ ~pred(last.arg, input[last.c0 + 1])
       \/ last.f = "atom" /\ input[last.c0 + 1] # last.arg

\* C13: predicate and atom that reject the token at cursor c fail, leave the
\* cursor at c + 1, issue neither save nor load (the checkpoint is as it
\* was), and report "unexpected token X" and "unexpected token X, expected
\* Y", X being the token consumed.
C13_NoImplicitBacktrack ==
    Rejects =>
        /\ last.st = "err"
        /\ cursor = last.c0 + 1
        /\ last.calls = <<>>
        /\ saved_cursor = last.s0
        /\ last.f = "predicate" =>
                last.err = "unexpected token " \o ToString(input[last.c0 + 1])
        /\ last.f = "atom" =>
                last.err = "unexpected token " \o ToString(input[last.c0 + 1])
                               \o ", expected " \o ToString(last.arg)

C13_Witness ==
    /\ Rejects
    /\ last.f = "predicate"
    /\ last.c0 = 1
    /\ cursor = 2
    /\ last.err = "unexpected token 5"
    /\ last.calls = <<>>

TrySucceeds == Returned("try") /\ last.st = "ok" /\ Alone(last.arg).st = "ok"

\* What try adds to the closure run by itself from the same cursor: the
\* result and the cursor are the closure's, and the only call besides the
\* closure's own is one save before them (no load).
TryAddsOneSave ==
    /\ last.val = Alone(last.arg).val
    /\ cursor = Alone(last.arg).p.cursor
    /\ last.calls = <<"save">> \o Alone(last.arg).p.calls

\* C14 as stated: a try whose closure succeeds returns the closure's result,
\* adds no load, leaves the cursor where the closure leaves it, and the
\* checkpoint holds the cursor from before the closure ran.
C14_TrySuccessCheckpointIsEntry ==
    TrySucceeds =>
        /\ TryAddsOneSave
        /\ saved_cursor = last.c0

\* C14 as amended: the same, the checkpoint holding the cursor from before
\* the closure ran when the closure issued no save of its own, and the
\* cursor of the closure's last save when it did.
C14_TrySuccessTransparent ==
    /\ (Returned("try") /\ last.st = "ok") => Alone(last.arg).st = "ok"
    /\ TrySucceeds =>
        /\ TryAddsOneSave
        /\ saved_cursor =
               IF Alone(last.arg).p.calls = <<>> THEN last.c0
               ELSE Alone(last.arg).p.saved_cursor

C14_Witness ==
    /\ TrySucceeds
    /\ last.arg = OpBlock(<<OpNext, OpTry(OpNext)>>)
    /\ last.c0 = 0
    /\ cursor = 2
    /\ saved_cursor = 1
    /\ last.calls = <<"save", "save">>

Count(calls, x) == Cardinality({n \in 1..Len(calls) : calls[n] = x})

\* No load comes before a save that it can answer.
Balanced(calls) ==
    \A n \in 1..Len(calls) :
        Count(SubSeq(calls, 1, n), "load") <= Count(SubSeq(calls, 1, n), "save")

RECURSIVE Times(_, _)
Times(s, n) == IF n = 0 THEN <<>> ELSE s \o Times(s, n - 1)

\* A closure that calls one of next, predicate, atom and string.
Plain(o) == o.k \in {"next", "predicate", "atom", "string"}

LoadIf(failed) == IF failed THEN <<"load">> ELSE <<>>

\* C15: in every call that returns, the methods next, predicate, atom and
\* string issue no save and no load; try issues one save before its closure
\* and one load after it exactly when the closure failed; optional does so
\* through its try; many1 adds nothing to a first application that fails;
\* many, many1 and choose issue one save per attempt and one load per failed
\* attempt; and no load comes before a save.
C15_SaveLoadOnlyThroughTry ==
    pc = "returned" =>
        /\ Balanced(last.calls)
        /\ last.f \in {"next", "predicate", "atom", "string"} =>
                last.calls = <<>>
        /\ last.f \in {"try", "optional"} =>
                last.calls = <<"save">> \o Alone(last.arg).p.calls
                                 \o LoadIf(Alone(last.arg).st = "err")
        /\ last.f = "try" => (last.st = "err" <=> Alone(last.arg).st = "err")
        /\ (last.f = "many1" /\ last.st = "err") =>
                last.calls = Alone(last.arg).p.calls
        /\ (last.f = "many" /\ Plain(last.arg)) =>
                last.calls = Times(<<"save">>, Len(last.val) + 1) \o <<"load">>
        /\ (last.f = "many1" /\ Plain(last.arg) /\ last.st = "ok") =>
                last.calls = Times(<<"save">>, Len(last.val)) \o <<"load">>
        /\ (last.f = "choose" /\ \A i \in 1..Len(last.arg) : Plain(last.arg[i])) =>
                last.calls =
                    IF last.st = "err"
                    THEN Times(<<"save", "load">>, Len(last.arg))
                    ELSE LET i == CHOOSE i \in FirstOk(last.arg) : TRUE
                         IN  Times(<<"save", "load">>, i - 1) \o <<"save">>

C15_Witness ==
    /\ Returned("many")
    /\ last.arg = OpPredicate("lt5")
    /\ last.val = <<4>>
    /\ last.calls = <<"save", "save", "load">>
    /\ cursor = last.c0 + 1

\* The closure run by itself at cursor c of the input.
At(o, c) == Call(o, TP(input, c, c))

\* The closure returns wherever it is started.
Terminating(o) == \A c \in 0..Len(input) : At(o, c).st # "hang"

\* The closure consumes at least one token whenever it succeeds.
Consuming(o) ==
    \A c \in 0..Len(input) : At(o, c).st = "ok" => At(o, c).p.cursor > c

Remaining == Len(input) - last.c0

\* The applications of the closure a returned many or many1 has made: one
\* per result and the failed one that ended the loop (for many1 that fails,
\* the first one only).
Applications == IF last.st = "ok" THEN Len(last.val) + 1 ELSE 1

\* C16: many and many1 return for every closure that returns wherever it is
\* started and consumes at least one token whenever it succeeds, after at
\* most one application of the closure per remaining token and one more.
C16_ManyTerminates ==
    (/\ Ended("many") \/ Ended("many1")
     /\ Terminating(last.arg)
     /\ Consuming(last.arg)) =>
        /\ pc = "returned"
        /\ Applications <= Remaining + 1

C16_Witness ==
    /\ Returned("many")
    /\ Terminating(last.arg)
    /\ Consuming(last.arg)
    /\ last.arg.k = "block"
    /\ Remaining = 3
    /\ Applications = 4

InRange(p) ==
    /\ 0 <= p.saved_cursor
    /\ p.saved_cursor <= p.cursor
    /\ p.cursor <= Len(p.input)

\* C17: on the single-slot stream every state between two calls satisfies
\* 0 <= saved_cursor <= cursor <= Len(input), and each of consume, save and
\* load made from it (the steps every call is made of) leaves a state that
\* does; load does not move the cursor forward and consume at the end of the
\* input does not move it.
C17_CheckpointCursorOrder ==
    stream = "TP" =>
        /\ InRange(Self)
        /\ InRange(consume(Self).p)
        /\ InRange(save(Self))
        /\ InRange(load(Self))
        /\ load(Self).cursor <= cursor
        /\ cursor = Len(input) => consume(Self).p.cursor = cursor

C17_Witness ==
    /\ stream = "TP"
    /\ pc = "returned"
    /\ Count(last.calls, "load") > 0
    /\ 0 < saved_cursor
    /\ saved_cursor < cursor
    /\ cursor < Len(input)

\* The last call has returned and an attempt of a closure it wraps failed:
\* the closure of try and optional fails from the starting cursor, so does
\* the first candidate of choose, and many and many1 return only after an
\* application of their closure has failed.
AttemptFailed ==
    /\ pc = "returned"
    /\ \/ last.f \in {"try", "optional"} /\ Alone(last.arg).st = "err"
       \/ last.f = "choose" /\ Len(last.arg) > 0
                            /\ Alone(last.arg[1]).st = "err"
       \/ last.f \in {"many", "many1"}

\* C18 as stated: a call in which an attempt of a wrapped closure failed
\* returns an error (that failure or a synthesized one), never a success.
C18_FailureAlwaysReturned == AttemptFailed => last.st = "err"

\* C18 as amended: try returns its closure's failure unchanged and many1
\* that of its first application; a choose that fails returns the error
\* synthesized for the token at the cursor; optional, many and many1 after
\* a successful first application return success although their last
\* attempt failed, and so does a choose with a successful later candidate.
C18_FailureReturnedOrDiscarded ==
    AttemptFailed =>
        /\ (last.f \in {"try", "many1"} /\ Alone(last.arg).st = "err") =>
                (last.st = "err" /\ last.err = Alone(last.arg).err)
        /\ (last.f = "choose" /\ last.st = "err") =>
                last.err = ExpectedHere(input, cursor)
        /\ (last.f = "choose" /\ last.st = "ok") =>
                Len(last.arg) >= 2
        /\ last.f = "optional" => (last.st = "ok" /\ last.val = Unit)
        /\ last.f = "many" => last.st = "ok"
        /\ (last.f = "many1" /\ Alone(last.arg).st = "ok") => last.st = "ok"

C18_Witness ==
    /\ AttemptFailed
    /\ last.f = "optional"
    /\ last.arg = OpAtom(5)
    /\ Alone(last.arg).err = "unexpected token 4, expected 5"
    /\ last.st = "ok"
    /\ cursor = last.c0

\* C19: on the test stream, in every reachable state, save followed at once
\* by load leaves the cursor and the input as they are; preview and
\* current_pos leave cursor and saved_cursor as they are, and a preview made
\* after a preview returns the same token.
C19_SaveLoadNoOpPreviewPure ==
    stream = "TP" =>
        /\ load(save(Self)).cursor = cursor
        /\ load(save(Self)).input = input
        /\ Returned("save_load") => cursor = last.c0
        /\ (Returned("preview") \/ Returned("current_pos")) =>
                (cursor = last.c0 /\ saved_cursor = last.s0)
        /\ Returned("preview") =>
                (last.val = get(input, last.c0) /\ preview(Self) = last.val)

C19_Witness ==
    /\ Returned("save_load")
    /\ last.s0 < last.c0
    /\ last.c0 < Len(input)
    /\ cursor = last.c0
    /\ saved_cursor = last.c0
    /\ last.calls = <<"save", "load">>

====
